---- MODULE Spec2Model ----
(***************************************************************************)
(* Model of the weather MCP server of weather.py: the four handlers that   *)
(* WeatherServer.setup_handlers registers (list_resources, read_resource,  *)
(* list_tools, call_tool) and the two tool implementations they call.      *)
(*                                                                         *)
(* A handler either returns a value or raises; the outcome of one request  *)
(* is recorded with the request in `log`: kind "result" when the handler   *)
(* returned, kind "error" when an exception left the handler.  Every       *)
(* invocation of get_current_weather / get_weather_forecast is recorded in *)
(* `invocations`, every logger.error line in `errors`.                     *)
(*                                                                         *)
(* JSON values are tagged records (StrV, IntV).  The non-ASCII glyphs of the *)
(* source's text literals are written as ASCII names in angle brackets.    *)
(***************************************************************************)
EXTENDS Integers, Sequences, FiniteSets, TLC

VARIABLES log, invocations, errors

vars == <<log, invocations, errors>>

\* Number of requests one behaviour of the model handles.
MaxRequests == 2

(***************************************************************************)
(* JSON values                                                             *)
(***************************************************************************)
StrV(s) == [t |-> "str", s |-> s, n |-> 0]

IntV(n) == [t |-> "int", s |-> "", n |-> n]

\* The slot of a handler parameter the handler does not have.
NoValue == [t |-> "none", s |-> "", n |-> 0]

\* f"{v}" of a JSON value.
Format(v) == IF v.t = "str" THEN v.s ELSE ToString(v.n)

\* type(v).__name__ as it appears in a TypeError message.
TypeName(v) == IF v.t = "str" THEN "str" ELSE "int"

\* dict.get(key, default)
Get(arguments, key, default) ==
    IF key \in DOMAIN arguments THEN arguments[key] ELSE default

\* str(KeyError(key))
KeyErrorText(key) == "'" \o key \o "'"

(***************************************************************************)
(* Outcomes of a call: a returned value or a raised exception, with the    *)
(* handler invocations and logger.error lines the call made.               *)
(***************************************************************************)
Return(content, invoked, logged) ==
    [raised |-> FALSE, exc |-> "", content |-> content,
     invoked |-> invoked, logged |-> logged]

Raise(exc, invoked, logged) ==
    [raised |-> TRUE, exc |-> exc, content |-> <<>>,
     invoked |-> invoked, logged |-> logged]

\* The message of the exception httpx.AsyncClient raises when it fails.
ClientErrorText == "client unavailable"

(***************************************************************************)
(* Registry: list_resources and list_tools                                 *)
(***************************************************************************)
handle_list_resources ==
    << [uri |-> "weather://current", name |-> "Current Weather",
        description |-> "Get current weather information for a location",
        mimeType |-> "application/json"],
       [uri |-> "weather://forecast", name |-> "Weather Forecast",
        description |-> "Get weather forecast for a location",
        mimeType |-> "application/json"] >>

UnitsEnum == <<"metric", "imperial", "kelvin">>

MinDays == 1

MaxDays == 5

DefaultDays == 3

DefaultUnits == "metric"

\* The inputSchema of a tool: per property its type, and the constraints
\* the schema declares (enum for strings, minimum/maximum for integers).
LocationSchema == [type |-> "string", enum |-> <<>>, minimum |-> 0, maximum |-> 0]

UnitsSchema == [type |-> "string", enum |-> UnitsEnum, minimum |-> 0, maximum |-> 0]

DaysSchema == [type |-> "integer", enum |-> <<>>, minimum |-> MinDays, maximum |-> MaxDays]

\* handle_list_tools with the second Tool registered under the first one's name.
handle_list_tools_DuplicateName ==
    << [name |-> "get_current_weather",
        description |-> "Get current weather information for a specific location",
        properties |-> [location |-> LocationSchema, units |-> UnitsSchema],
        propertyNames |-> {"location", "units"},
        required |-> <<"location">>],
       [name |-> "get_current_weather",
        description |-> "Get weather forecast for a specific location",
        properties |-> [location |-> LocationSchema, days |-> DaysSchema,
                        units |-> UnitsSchema],
        propertyNames |-> {"location", "days", "units"},
        required |-> <<"location">>] >>

handle_list_tools ==
    << [name |-> "get_current_weather",
        description |-> "Get current weather information for a specific location",
        properties |-> [location |-> LocationSchema, units |-> UnitsSchema],
        propertyNames |-> {"location", "units"},
        required |-> <<"location">>],
       [name |-> "get_weather_forecast",
        description |-> "Get weather forecast for a specific location",
        properties |-> [location |-> LocationSchema, days |-> DaysSchema,
                        units |-> UnitsSchema],
        propertyNames |-> {"location", "days", "units"},
        required |-> <<"location">>] >>

(***************************************************************************)
(* read_resource                                                           *)
(***************************************************************************)
\* str(uri) of an AnyUrl with a scheme and a host.
StrOfUrl(uri) == uri.scheme \o "://" \o uri.host

\* handle_read_resource with the second test turned into the else branch.
handle_read_resource_ElseForecast(uri) ==
    IF StrOfUrl(uri) = "weather://current"
    THEN Return(<<"Current weather data resource - use get_current_weather tool">>,
                <<>>, <<>>)
    ELSE Return(<<"Weather forecast data resource - use get_weather_forecast tool">>,
                <<>>, <<>>)

handle_read_resource(uri) ==
    IF StrOfUrl(uri) = "weather://current"
    THEN Return(<<"Current weather data resource - use get_current_weather tool">>,
                <<>>, <<>>)
    ELSE IF StrOfUrl(uri) = "weather://forecast"
    THEN Return(<<"Weather forecast data resource - use get_weather_forecast tool">>,
                <<>>, <<>>)
    ELSE Raise("Unknown resource: " \o StrOfUrl(uri), <<>>, <<>>)

(***************************************************************************)
(* The tool implementations.  `clientFails` is the environment's choice of *)
(* what `async with httpx.AsyncClient()` does: "no" failure, raising on    *)
(* "entering" (before the body runs) or raising on "leaving" (after the    *)
(* body, its try block included, has run; the exception then replaces the  *)
(* value the body returned).  Either way the exception is raised outside   *)
(* the function's own try block.                                           *)
(***************************************************************************)
ClientOutcomes == {"no", "entering", "leaving"}

CurrentWeatherText(location, units) ==
    "Current Weather for " \o Format(location) \o ":\n"
    \o "<thermometer> Temperature: "
    \o (IF units = StrV("metric") THEN "22<deg>C" ELSE "72<deg>F") \o "\n"
    \o "<cloud> Conditions: Partly cloudy\n"
    \o "<droplet> Humidity: 65%\n"
    \o "<wind> Wind Speed: "
    \o (IF units = StrV("metric") THEN "10 km/h" ELSE "6 mph")

get_current_weather(location, units, clientFails) ==
    LET call == [handler |-> "get_current_weather", location |-> location,
                 days |-> NoValue, units |-> units]
        body == Return(<<CurrentWeatherText(location, units)>>, <<call>>, <<>>)
    IN IF clientFails = "entering"
       THEN Raise(ClientErrorText, <<call>>, <<>>)
       ELSE IF clientFails = "leaving"
       THEN Raise(ClientErrorText, <<call>>, body.logged)
       ELSE body

\* The block the loop body appends for index i of range(days).
ForecastDay(i, units) ==
    LET metric    == units = StrV("metric")
        temp_high == IF metric THEN 25 + i ELSE 77 + i * 2
        temp_low  == IF metric THEN 15 + i ELSE 59 + i * 2
        temp_unit == IF metric THEN "<deg>C" ELSE "<deg>F"
    IN "<calendar> Day " \o ToString(i + 1) \o ":\n"
       \o "   <thermometer> High: " \o ToString(temp_high) \o temp_unit
       \o ", Low: " \o ToString(temp_low) \o temp_unit \o "\n"
       \o "   <cloud> Conditions: "
       \o (IF i % 2 = 0 THEN "Sunny" ELSE "Cloudy") \o "\n"
       \o "   <rain> Precipitation: " \o ToString(10 + i * 5) \o "%\n\n"

\* The blocks of `for i in range(from, n)`, concatenated.
RECURSIVE ForecastDays(_, _, _)
ForecastDays(from, n, units) ==
    IF from >= n THEN ""
    ELSE ForecastDay(from, units) \o ForecastDays(from + 1, n, units)

ForecastText(location, days, units) ==
    "Weather Forecast for " \o Format(location) \o " (" \o Format(days)
    \o " days):\n\n" \o ForecastDays(0, days.n, units)

\* str(e) of the TypeError range(days) raises for a non-integer.
RangeErrorText(days) ==
    "'" \o TypeName(days) \o "' object cannot be interpreted as an integer"

get_weather_forecast(location, days, units, clientFails) ==
    LET call == [handler |-> "get_weather_forecast", location |-> location,
                 days |-> days, units |-> units]
        body ==
            IF days.t # "int"
            THEN Return(<<"Failed to fetch forecast data: " \o RangeErrorText(days)>>,
                        <<call>>,
                        <<"Error fetching forecast data: " \o RangeErrorText(days)>>)
            ELSE Return(<<ForecastText(location, days, units)>>, <<call>>, <<>>)
    IN IF clientFails = "entering"
       THEN Raise(ClientErrorText, <<call>>, <<>>)
       ELSE IF clientFails = "leaving"
       THEN Raise(ClientErrorText, <<call>>, body.logged)
       ELSE body

(***************************************************************************)
(* call_tool                                                               *)
(***************************************************************************)
\* handle_call_tool with the final `else: raise ValueError` dropped, so that any
\* other name is treated as get_weather_forecast.
CallToolBody_ElseForecast(name, arguments, clientFails) ==
    IF name = "get_current_weather"
    THEN IF "location" \notin DOMAIN arguments
         THEN Raise(KeyErrorText("location"), <<>>, <<>>)
         ELSE get_current_weather(arguments["location"],
                                  Get(arguments, "units", StrV(DefaultUnits)),
                                  clientFails)
    ELSE IF "location" \notin DOMAIN arguments
         THEN Raise(KeyErrorText("location"), <<>>, <<>>)
         ELSE get_weather_forecast(arguments["location"],
                                   Get(arguments, "days", IntV(DefaultDays)),
                                   Get(arguments, "units", StrV(DefaultUnits)),
                                   clientFails)

\* handle_call_tool reading location with arguments.get("location", "")
\* instead of arguments["location"].
CallToolBody_GetLocation(name, arguments, clientFails) ==
    IF name = "get_current_weather"
    THEN get_current_weather(Get(arguments, "location", StrV("")),
                             Get(arguments, "units", StrV(DefaultUnits)),
                             clientFails)
    ELSE IF name = "get_weather_forecast"
    THEN get_weather_forecast(Get(arguments, "location", StrV("")),
                              Get(arguments, "days", IntV(DefaultDays)),
                              Get(arguments, "units", StrV(DefaultUnits)),
                              clientFails)
    ELSE Raise("Unknown tool: " \o name, <<>>, <<>>)

\* The try block of handle_call_tool.
CallToolBody(name, arguments, clientFails) ==
    IF name = "get_current_weather"
    THEN IF "location" \notin DOMAIN arguments
         THEN Raise(KeyErrorText("location"), <<>>, <<>>)
         ELSE get_current_weather(arguments["location"],
                                  Get(arguments, "units", StrV(DefaultUnits)),
                                  clientFails)
    ELSE IF name = "get_weather_forecast"
    THEN IF "location" \notin DOMAIN arguments
         THEN Raise(KeyErrorText("location"), <<>>, <<>>)
         ELSE get_weather_forecast(arguments["location"],
                                   Get(arguments, "days", IntV(DefaultDays)),
                                   Get(arguments, "units", StrV(DefaultUnits)),
                                   clientFails)
    ELSE Raise("Unknown tool: " \o name, <<>>, <<>>)

\* handle_call_tool without its try/except: the exception leaves the handler.
handle_call_tool_NoExcept(name, arguments, clientFails) ==
    CallToolBody(name, arguments, clientFails)

\* The except clause of handle_call_tool: log the error, return it as text.
handle_call_tool(name, arguments, clientFails) ==
    LET body == CallToolBody(name, arguments, clientFails)
    IN IF body.raised
       THEN Return(<<"Error: " \o body.exc>>, body.invoked,
                   body.logged \o
                       <<"Error calling tool " \o name \o ": " \o body.exc>>)
       ELSE body

(***************************************************************************)
(* Requests                                                                *)
(***************************************************************************)
EmptyArgs == [k \in {} |-> NoValue]

NoUri == [scheme |-> "", host |-> ""]

ToolNames == {"get_current_weather", "get_weather_forecast", "echo"}

\* The test client's arguments, and variations of them one property at a
\* time: a property left out, of the wrong type, outside its declared
\* enum or range, and a property no schema declares.
ArgumentDicts ==
    { EmptyArgs,
      "units" :> StrV("metric"),
      "location" :> StrV("Tokyo"),
      "location" :> IntV(42),
      ("location" :> StrV("Tokyo")) @@ ("units" :> StrV("metric")),
      ("location" :> StrV("Tokyo")) @@ ("units" :> StrV("kelvin")),
      ("location" :> StrV("Tokyo")) @@ ("units" :> StrV("celsius")),
      ("location" :> StrV("Tokyo")) @@ ("units" :> IntV(1)),
      ("location" :> StrV("Tokyo")) @@ ("days" :> IntV(1)),
      ("location" :> StrV("Tokyo")) @@ ("days" :> IntV(0)),
      ("location" :> StrV("Tokyo")) @@ ("days" :> IntV(6)),
      ("location" :> StrV("Tokyo")) @@ ("days" :> StrV("two")),
      ("location" :> StrV("Tokyo")) @@ ("verbose" :> StrV("yes")),
      ("location" :> StrV("London")) @@ ("days" :> IntV(2))
                                     @@ ("units" :> StrV("imperial")) }

Uris == { [scheme |-> "weather", host |-> "current"],
          [scheme |-> "weather", host |-> "forecast"],
          [scheme |-> "weather", host |-> "alerts"],
          [scheme |-> "res", host |-> "a"] }

\* One entry of the log: the request and how it was answered.
Entry(method, name, uri, arguments, clientFails, out, tools, resources) ==
    [method |-> method, name |-> name, uri |-> uri, arguments |-> arguments,
     clientFails |-> clientFails,
     kind |-> IF out.raised THEN "error" ELSE "result",
     content |-> out.content, message |-> out.exc, invoked |-> out.invoked,
     tools |-> tools, resources |-> resources]

(***************************************************************************)
(* The state machine: one action per request kind.                         *)
(***************************************************************************)
Init ==
    /\ log = <<>>
    /\ invocations = <<>>
    /\ errors = <<>>

\* The handlers' steps, without the bound on the length of a session.
AnswerListResources ==
    /\ log' = Append(log, Entry("resources/list", "", NoUri, EmptyArgs, "no",
                                Return(<<>>, <<>>, <<>>),
                                <<>>, handle_list_resources))
    /\ UNCHANGED <<invocations, errors>>

\* The tools/list entries among the first k entries of the log.
RECURSIVE ToolListings(_)
ToolListings(k) ==
    IF k = 0 THEN 0
    ELSE ToolListings(k - 1) + (IF log[k].method = "tools/list" THEN 1 ELSE 0)

\* handle_list_tools repeated n times.
RECURSIVE Repeated(_)
Repeated(n) == IF n = 0 THEN <<>> ELSE Repeated(n - 1) \o handle_list_tools

\* handle_list_tools appending its Tools to a list kept on the server object
\* at every call, and returning that list.
AnswerListTools_Accumulating ==
    /\ log' = Append(log, Entry("tools/list", "", NoUri, EmptyArgs, "no",
                                Return(<<>>, <<>>, <<>>),
                                Repeated(ToolListings(Len(log)) + 1), <<>>))
    /\ UNCHANGED <<invocations, errors>>

AnswerListTools ==
    /\ log' = Append(log, Entry("tools/list", "", NoUri, EmptyArgs, "no",
                                Return(<<>>, <<>>, <<>>),
                                handle_list_tools, <<>>))
    /\ UNCHANGED <<invocations, errors>>

AnswerReadResource ==
    \E uri \in Uris :
        LET out == handle_read_resource(uri)
        IN /\ log' = Append(log, Entry("resources/read", "", uri, EmptyArgs,
                                       "no", out, <<>>, <<>>))
           /\ invocations' = invocations \o out.invoked
           /\ errors' = errors \o out.logged

\* A tools/call whose name and arguments come from the given sets.
AnswerCallTool(names, dicts) ==
    \E name \in names, arguments \in dicts, clientFails \in ClientOutcomes :
        LET out == handle_call_tool(name, arguments, clientFails)
        IN /\ log' = Append(log, Entry("tools/call", name, NoUri, arguments,
                                       clientFails, out, <<>>, <<>>))
           /\ invocations' = invocations \o out.invoked
           /\ errors' = errors \o out.logged

ListResources == Len(log) < MaxRequests /\ AnswerListResources

ListTools == Len(log) < MaxRequests /\ AnswerListTools

ReadResource == Len(log) < MaxRequests /\ AnswerReadResource

CallTool ==
    Len(log) < MaxRequests /\ AnswerCallTool(ToolNames, ArgumentDicts)

Next ==
    \/ ListResources
    \/ ListTools
    \/ ReadResource
    \/ CallTool

Spec == Init /\ [][Next]_vars

(***************************************************************************)
(* Longer sessions of the test client: the same requests, with the         *)
(* tools/call arguments the test client sends (and none at all), so that   *)
(* listings can be separated by other requests.                            *)
(***************************************************************************)
\* Number of requests one session of SpecListings handles.
MaxInterleaved == 3

TestClientDicts ==
    { EmptyArgs,
      ("location" :> StrV("Tokyo")) @@ ("units" :> StrV("metric")),
      ("location" :> StrV("London")) @@ ("days" :> IntV(2))
                                     @@ ("units" :> StrV("imperial")) }

SessionListResources == Len(log) < MaxInterleaved /\ AnswerListResources

SessionListTools == Len(log) < MaxInterleaved /\ AnswerListTools

SessionReadResource == Len(log) < MaxInterleaved /\ AnswerReadResource

SessionCallTool ==
    Len(log) < MaxInterleaved /\ AnswerCallTool(ToolNames, TestClientDicts)

NextListings ==
    \/ SessionListResources
    \/ SessionListTools
    \/ SessionReadResource
    \/ SessionCallTool

SpecListings == Init /\ [][NextListings]_vars

(***************************************************************************)
(* Properties                                                              *)
(***************************************************************************)
Range(seq) == {seq[i] : i \in DOMAIN seq}

RegisteredTools == {handle_list_tools[i].name : i \in DOMAIN handle_list_tools}

RegisteredUris == {handle_list_resources[i].uri : i \in DOMAIN handle_list_resources}

ToolCalls == {i \in DOMAIN log : log[i].method = "tools/call"}

ResourceReads == {i \in DOMAIN log : log[i].method = "resources/read"}

\* The descriptor handle_list_tools declares under `name`.
Descriptor(name) ==
    CHOOSE d \in Range(handle_list_tools) : d.name = name

\* A required property of the tool that the arguments leave out.
MissingRequired(name, arguments) ==
    {p \in Range(Descriptor(name).required) : p \notin DOMAIN arguments}

\* Does value v satisfy the declared property schema sch?
Satisfies(v, sch) ==
    IF sch.type = "string"
    THEN v.t = "str" /\ (sch.enum # <<>> => v.s \in Range(sch.enum))
    ELSE v.t = "int" /\ sch.minimum <= v.n /\ v.n <= sch.maximum

\* The declared properties present in the arguments with a value their
\* schema does not allow.
Violating(name, arguments) ==
    {p \in Descriptor(name).propertyNames \cap DOMAIN arguments :
        ~Satisfies(arguments[p], Descriptor(name).properties[p])}

\* C2 as claimed: a tools/call for a name that is not registered is answered
\* with a protocol-level error Response and invokes no tool handler.
C2_UnknownToolIsErrorResponse ==
    \A i \in ToolCalls :
        log[i].name \notin RegisteredTools =>
            log[i].kind = "error" /\ log[i].invoked = <<>>

\* C2 as amended: a tools/call for a name that is not registered is answered
\* with a successful Response whose only content item is the text
\* "Error: Unknown tool: <name>", and invokes no tool handler.
C2_UnknownToolIsErrorText ==
    \A i \in ToolCalls :
        log[i].name \notin RegisteredTools =>
            /\ log[i].kind = "result"
            /\ log[i].content = <<"Error: Unknown tool: " \o log[i].name>>
            /\ log[i].invoked = <<>>

C2_Witness ==
    \E i \in ToolCalls :
        /\ log[i].name = "echo"
        /\ "location" \in DOMAIN log[i].arguments
        /\ invocations = <<>>

\* C3 as claimed: a tools/call on a registered tool that omits a required
\* property is answered with an error Response naming the property, and the
\* bound handler is not invoked.
C3_MissingRequiredIsErrorResponse ==
    \A i \in ToolCalls :
        (/\ log[i].name \in RegisteredTools
         /\ MissingRequired(log[i].name, log[i].arguments) # {}) =>
            /\ log[i].kind = "error"
            /\ \E p \in MissingRequired(log[i].name, log[i].arguments) :
                   log[i].message = KeyErrorText(p)
            /\ log[i].invoked = <<>>

\* C3 as amended: a tools/call on a registered tool that omits the required
\* property P is answered with a successful Response whose only content item
\* is the text "Error: 'P'", and the bound handler is not invoked.
C3_MissingRequiredIsErrorText ==
    \A i \in ToolCalls :
        (/\ log[i].name \in RegisteredTools
         /\ MissingRequired(log[i].name, log[i].arguments) # {}) =>
            /\ log[i].kind = "result"
            /\ \E p \in MissingRequired(log[i].name, log[i].arguments) :
                   log[i].content = <<"Error: " \o KeyErrorText(p)>>
            /\ log[i].invoked = <<>>

C3_Witness ==
    \E i \in ToolCalls :
        /\ log[i].name = "get_weather_forecast"
        /\ log[i].arguments = "units" :> StrV("metric")
        /\ invocations = <<>>

\* C4: a tools/call whose arguments reach the bound handler and whose handler
\* raises is answered with a successful Response whose only content item is
\* the text "Error: <failure description>"; no tools/call is ever answered
\* with an error Response, and the server still accepts the next request.
C4_HandlerFailureIsSuccessfulText ==
    /\ \A i \in ToolCalls :
           /\ log[i].kind = "result"
           /\ (log[i].invoked # <<>> /\ log[i].clientFails # "no") =>
                  log[i].content = <<"Error: " \o ClientErrorText>>
    /\ Len(log) < MaxRequests => ENABLED Next

C4_Witness ==
    /\ Len(log) = 2
    /\ log[1].method = "tools/call"
    /\ log[1].invoked # <<>>
    /\ log[1].clientFails = "leaving"
    /\ log[2].method = "tools/call"
    /\ log[2].invoked # <<>>
    /\ log[2].clientFails = "no"

\* C5: a resources/read of a uri that list_resources does not list is answered
\* with an error Response "Unknown resource: <uri>"; a read of a listed uri is
\* answered with the text its branch of the read handler returns; a failed read
\* is never answered with a successful Response.
C5_ReadResource ==
    \A i \in ResourceReads :
        LET u == StrOfUrl(log[i].uri)
        IN /\ u \notin RegisteredUris =>
                  /\ log[i].kind = "error"
                  /\ log[i].message = "Unknown resource: " \o u
                  /\ log[i].content = <<>>
           /\ u \in RegisteredUris =>
                  /\ log[i].kind = "result"
                  /\ log[i].content =
                       << IF u = "weather://current"
                          THEN "Current weather data resource - use get_current_weather tool"
                          ELSE "Weather forecast data resource - use get_weather_forecast tool" >>

C5_Witness ==
    /\ Len(log) = 2
    /\ log[1].method = "resources/read"
    /\ log[1].kind = "error"
    /\ log[2].method = "resources/read"
    /\ log[2].kind = "result"

\* The handler invocations made by the tools/call entries among the first k
\* entries of the log.
RECURSIVE InvokedByCalls(_)
InvokedByCalls(k) ==
    IF k = 0 THEN <<>>
    ELSE InvokedByCalls(k - 1)
         \o (IF log[k].method = "tools/call" THEN log[k].invoked ELSE <<>>)

\* C6: whatever requests come before or between them, all tools/list answers
\* carry the same descriptors and all resources/list answers carry the same
\* descriptors, in the order the source declares them, with unique names and
\* uris; a listing is always a successful Response, and the handler
\* invocations are exactly those of the tools/call requests (a listing adds
\* none).
C6_ListingsStable ==
    /\ \A i, j \in DOMAIN log :
           log[i].method = log[j].method =>
               /\ log[i].tools = log[j].tools
               /\ log[i].resources = log[j].resources
    /\ invocations = InvokedByCalls(Len(log))
    /\ \A i \in DOMAIN log :
           /\ log[i].method \in {"tools/list", "resources/list"} =>
                  log[i].kind = "result" /\ log[i].invoked = <<>>
           /\ log[i].method = "tools/list" =>
                  /\ Len(log[i].tools) = 2
                  /\ log[i].tools[1].name = "get_current_weather"
                  /\ log[i].tools[2].name = "get_weather_forecast"
                  /\ \A a, b \in DOMAIN log[i].tools :
                         log[i].tools[a].name = log[i].tools[b].name => a = b
           /\ log[i].method = "resources/list" =>
                  /\ Len(log[i].resources) = 2
                  /\ log[i].resources[1].uri = "weather://current"
                  /\ log[i].resources[2].uri = "weather://forecast"
                  /\ \A a, b \in DOMAIN log[i].resources :
                         log[i].resources[a].uri = log[i].resources[b].uri => a = b

\* Two tools/list requests with a tools/call that ran its handler between them.
C6_Witness ==
    /\ Len(log) = 3
    /\ log[1].method = "tools/list"
    /\ log[2].method = "tools/call"
    /\ log[2].invoked # <<>>
    /\ log[3].method = "tools/list"
    /\ log[1].tools = log[3].tools

\* C10 as claimed: a tools/call on a registered tool whose arguments hold a
\* declared property with a value its schema does not allow is answered with
\* an error Response and the handler is not invoked; undeclared properties
\* are ignored and missing optional properties reach the handler as their
\* declared defaults.
C10_InvalidValueRejected ==
    \A i \in ToolCalls :
        log[i].name \in RegisteredTools =>
            /\ Violating(log[i].name, log[i].arguments) # {} =>
                   log[i].kind = "error" /\ log[i].invoked = <<>>
            /\ \A c \in Range(log[i].invoked) :
                   /\ "units" \notin DOMAIN log[i].arguments =>
                          c.units = StrV(DefaultUnits)
                   /\ (c.handler = "get_weather_forecast"
                       /\ "days" \notin DOMAIN log[i].arguments) =>
                          c.days = IntV(DefaultDays)

====
